---- MODULE Spec2Model ----
(***************************************************************************)
(* The logrus formatter of package appengine: Formatter.Format turns one   *)
(* log entry into one line of JSON.  The repository holds two variants of  *)
(* the formatter: src/formatter.go ("base") and src/unnamed/part_000       *)
(* ("trim": adds TrimFilenamePrefix and keeps errors that implement        *)
(* json.Marshaler).  Both are modelled; f.variant says which one runs.     *)
(*                                                                         *)
(* One Format call is three kinds of step: Call (lines 52-78: the document *)
(* is created and the reserved keys are set), RangeData (one iteration of  *)
(* the loop over entry.Data, in the arbitrary order of a Go map range) and *)
(* Encode (buffer choice, json.Encoder.Encode, return).                    *)
(***************************************************************************)
EXTENDS Integers, Sequences, FiniteSets, TLC

VARIABLES
    f,        \* the Formatter (configuration) of the call in progress
    entry,    \* the *log.Entry of the call in progress
    data,     \* the log.Fields map built by Format
    todo,     \* keys of entry.Data the range loop has not visited yet
    emitted,  \* history: field name -> key the loop stored it under
    pc,       \* "idle", "range" (in the loop over entry.Data), "done"
    buf,      \* contents of the caller's reusable bytes.Buffer
    before,   \* contents of that buffer when the call started
    ret       \* what Format returned: [bytes, err]

vars == <<f, entry, data, todo, emitted, pc, buf, before, ret>>

----------------------------------------------------------------------------
(* Bounds of the model *)

MaxFields == 2      \* entries in entry.Data
MaxLevel == 7       \* levels 0..MaxLevel; 7 and above are unrecognized
MaxBufLen == 4      \* a supplied buffer is reused while it holds at most this

(* logrus level values *)
PanicLevel == 0
FatalLevel == 1
ErrorLevel == 2
WarnLevel == 3
InfoLevel == 4
DebugLevel == 5
TraceLevel == 6

NanosPerSecond == 1000000000

----------------------------------------------------------------------------
(* Go values held in entry.Data and in the document *)

GoString(s) == [kind |-> "string", str |-> s]
GoInt(n) == [kind |-> "int", int |-> n]
GoMap(m) == [kind |-> "map", map |-> m]
GoError(msg) == [kind |-> "error", msg |-> msg]
GoMarshalerError(msg) == [kind |-> "marshalerError", msg |-> msg]
GoChan == [kind |-> "chan"]

IsError(v) == v.kind \in {"error", "marshalerError"}
IsMarshaler(v) == v.kind = "marshalerError"
ErrorString(v) == v.msg

EmptyMap == [k \in {} |-> GoChan]

(* entry.Caller is nil, or reporting the caller is off *)
NoCaller == [nil |-> TRUE]
Frame(fn, file, line) == [Function |-> fn, File |-> file, Line |-> line]
HasCaller(e) == e.Caller # NoCaller

SourceLocationKey == "logging.googleapis.com/sourceLocation"

----------------------------------------------------------------------------
(* stackdriverLevel and Level.String *)

(* mutant: the WarnLevel case is missing and falls to the default *)
stackdriverLevelNoWarning(l) ==
    CASE l \in {PanicLevel, FatalLevel} -> "CRITICAL"
      [] l = ErrorLevel -> "ERROR"
      [] l = InfoLevel -> "INFO"
      [] l \in {DebugLevel, TraceLevel} -> "DEBUG"
      [] OTHER -> "DEFAULT"

stackdriverLevel(l) ==
    CASE l \in {PanicLevel, FatalLevel} -> "CRITICAL"
      [] l = ErrorLevel -> "ERROR"
      [] l = WarnLevel -> "WARNING"
      [] l = InfoLevel -> "INFO"
      [] l \in {DebugLevel, TraceLevel} -> "DEBUG"
      [] OTHER -> "DEFAULT"

LevelString(l) ==
    CASE l = PanicLevel -> "panic"
      [] l = FatalLevel -> "fatal"
      [] l = ErrorLevel -> "error"
      [] l = WarnLevel -> "warning"
      [] l = InfoLevel -> "info"
      [] l = DebugLevel -> "debug"
      [] l = TraceLevel -> "trace"
      [] OTHER -> "unknown"

----------------------------------------------------------------------------
(* The reserved part of the document: lines 52-78 *)

TimeUnix(t) == t \div NanosPerSecond
TimeNanosecond(t) == t % NanosPerSecond

TimestampValue(t) ==
    GoMap([k \in {"seconds", "nanos"} |->
            IF k = "seconds" THEN GoInt(TimeUnix(t)) ELSE GoInt(TimeNanosecond(t))])

TrimPrefix(s, prefix) ==
    IF Len(s) >= Len(prefix) /\ SubSeq(s, 1, Len(prefix)) = prefix
    THEN SubSeq(s, Len(prefix) + 1, Len(s))
    ELSE s

(* The CallerPrettyfier strategies of the model; "nil" is no prettyfier.   *)
(* Each is a function of the frame it is handed.                           *)
Prettyfiers == {"nil", "same", "noFunction", "noFile", "neither"}

CallerPrettyfier(name, frame) ==
    CASE name = "same" -> <<frame.Function, frame.File>>
      [] name = "noFunction" -> <<"", frame.File>>
      [] name = "noFile" -> <<frame.Function, "">>
      [] name = "neither" -> <<"", "">>

(* fileVal before the prettyfier: trimmed in the trim variant only *)
FileVal(fm, e) ==
    IF fm.variant = "trim"
    THEN TrimPrefix(e.Caller.File, fm.TrimFilenamePrefix)
    ELSE e.Caller.File

(* <<funcVal, fileVal>> after lines 65-69 (part_000: 71-76) *)
CallerVals(fm, e) ==
    IF fm.CallerPrettyfier # "nil"
    THEN CallerPrettyfier(fm.CallerPrettyfier, e.Caller)
    ELSE <<e.Caller.Function, FileVal(fm, e)>>

(* mutant: line is set whether or not file is *)
SourceLocationLineAlways(fm, e) ==
    LET funcVal == CallerVals(fm, e)[1]
        fileVal == CallerVals(fm, e)[2]
        keys == (IF funcVal # "" THEN {"function"} ELSE {})
                \cup (IF fileVal # "" THEN {"file"} ELSE {}) \cup {"line"}
    IN  GoMap([k \in keys |->
                CASE k = "function" -> GoString(funcVal)
                  [] k = "file" -> GoString(fileVal)
                  [] k = "line" -> GoInt(e.Caller.Line)])

SourceLocation(fm, e) ==
    LET funcVal == CallerVals(fm, e)[1]
        fileVal == CallerVals(fm, e)[2]
        keys == (IF funcVal # "" THEN {"function"} ELSE {})
                \cup (IF fileVal # "" THEN {"file", "line"} ELSE {})
    IN  GoMap([k \in keys |->
                CASE k = "function" -> GoString(funcVal)
                  [] k = "file" -> GoString(fileVal)
                  [] k = "line" -> GoInt(e.Caller.Line)])

ReservedKeys(fm, e) ==
    (IF fm.DisableTimestamp THEN {} ELSE {"timestamp"})
    \cup {"message", "severity", "level"}
    \cup (IF HasCaller(e) THEN {SourceLocationKey} ELSE {})

ReservedData(fm, e) ==
    [k \in ReservedKeys(fm, e) |->
        CASE k = "timestamp" -> TimestampValue(e.Time)
          [] k = "message" -> GoString(e.Message)
          [] k = "severity" -> GoString(stackdriverLevel(e.Level))
          [] k = "level" -> GoString(LevelString(e.Level))
          [] k = SourceLocationKey -> SourceLocation(fm, e)]

----------------------------------------------------------------------------
(* One iteration of the loop over entry.Data: lines 80-92 *)

(* mutant: a clashing field keeps its name and overwrites the key *)
FieldKeyNoPrefix(d, k) == k

(* mutant: only a fixed list of names is prefixed, whatever the document holds *)
FieldKeyFixedList(d, k) ==
    IF k \in {"timestamp", "message", "severity", "level", SourceLocationKey}
    THEN "fields." \o k
    ELSE k

FieldKey(d, k) == IF k \in DOMAIN d THEN "fields." \o k ELSE k

FieldValue(fm, v) ==
    IF IsError(v)
    THEN IF fm.variant = "trim" /\ IsMarshaler(v) THEN v ELSE GoString(ErrorString(v))
    ELSE v

Put(d, k, v) == [x \in DOMAIN d \cup {k} |-> IF x = k THEN v ELSE d[x]]

InsertField(fm, d, k, v) == Put(d, FieldKey(d, k), FieldValue(fm, v))

(* The whole loop, visiting the fields in the order given *)
RECURSIVE RangeInOrder(_, _, _, _)
RangeInOrder(fm, e, d, order) ==
    IF order = <<>>
    THEN d
    ELSE RangeInOrder(fm, e, InsertField(fm, d, Head(order), e.Data[Head(order)]),
                      Tail(order))

(* The orders in which a Go range may visit the keys of a map *)
RangeOrders(keys) ==
    {o \in [1..Cardinality(keys) -> keys] :
        \A i, j \in 1..Cardinality(keys) : i # j => o[i] # o[j]}

----------------------------------------------------------------------------
(* encoding/json, as far as the formatter's values go *)

JSONString(s) == [json |-> "string", str |-> s]
JSONNumber(n) == [json |-> "number", num |-> n]
JSONObject(o) == [json |-> "object", obj |-> o]
JSONUnsupported == [json |-> "unsupported"]

(* MarshalJSON of the model's json.Marshaler error: a structured form *)
MarshalJSON(v) == JSONObject([k \in {"reason"} |-> JSONString(v.msg)])

EncodeLeaf(v) ==
    CASE v.kind = "string" -> JSONString(v.str)
      [] v.kind = "int" -> JSONNumber(v.int)
      [] v.kind = "marshalerError" -> MarshalJSON(v)
      [] v.kind = "error" -> JSONObject([k \in {} |-> JSONUnsupported])
      [] OTHER -> JSONUnsupported

(* a map is encoded member by member, to any depth; one member that      *)
(* cannot be encoded makes the whole value fail                           *)
RECURSIVE EncodeValue(_)
EncodeValue(v) ==
    IF v.kind = "map"
    THEN IF \E k \in DOMAIN v.map : EncodeValue(v.map[k]) = JSONUnsupported
         THEN JSONUnsupported
         ELSE JSONObject([k \in DOMAIN v.map |-> EncodeValue(v.map[k])])
    ELSE EncodeLeaf(v)

Encodable(d) == \A k \in DOMAIN d : EncodeValue(d[k]) # JSONUnsupported

EncodeDocument(d) == [k \in DOMAIN d |-> EncodeValue(d[k])]

Newline == [tok |-> "newline"]
ObjectText(d, pretty) ==
    [tok |-> "object", doc |-> EncodeDocument(d),
     indent |-> IF pretty THEN "  " ELSE ""]
Junk == [tok |-> "junk"]

(* mutant: the object without the newline Encode ends it with *)
EncoderOutputNoNewline(d, pretty) == <<ObjectText(d, pretty)>>

(* what encoder.Encode(data) writes *)
EncoderOutput(d, pretty) == <<ObjectText(d, pretty), Newline>>

(* lines 94-99: the entry's buffer if it has one, else a fresh one *)
DestinationBuffer(e, b) == IF e.Buffer THEN b ELSE <<>>

NoReturn == [pending |-> TRUE]
NoBytes == <<>>
NoError == "nil"
MarshalError == "failed to marshal fields to JSON"

----------------------------------------------------------------------------
(* Inputs *)

Variants == {"base", "trim"}

FormatterOf(variant, noTime, prettyfier, prefix, pretty) ==
    [variant |-> variant, DisableTimestamp |-> noTime,
     CallerPrettyfier |-> prettyfier,
     TrimFilenamePrefix |-> IF variant = "trim" THEN prefix ELSE "",
     PrettyPrint |-> pretty]

EntryOf(time, level, message, caller, fields, buffer) ==
    [Time |-> time, Level |-> level, Message |-> message, Caller |-> caller,
     Data |-> fields, Buffer |-> buffer]

FieldNames ==
    {"timestamp", "message", "fields.message", "level", SourceLocationKey, "func",
     "error"}

FieldValues ==
    {GoString("something"), GoError("wild walrus"),
     GoMarshalerError("wild walrus"), GoChan}

FieldMaps ==
    UNION {[ks -> FieldValues] :
            ks \in {s \in SUBSET FieldNames : Cardinality(s) <= MaxFields}}

Times == {0, 1500000001}
(* the frame of TestFieldClashWithCaller: a function, no file, line 0 *)
TestFrame == Frame("somefunc", "", 0)
(* a frame as runtime fills it in *)
SomeFrame == Frame("somefunc", "/src/app/main.go", 42)
Callers == {NoCaller, TestFrame, SomeFrame}

Idle == [nil |-> TRUE]

----------------------------------------------------------------------------
(* The state machine *)

Init ==
    /\ f = Idle
    /\ entry = Idle
    /\ data = EmptyMap
    /\ todo = {}
    /\ emitted = EmptyMap
    /\ pc = "idle"
    /\ buf = <<>>
    /\ before = <<>>
    /\ ret = NoReturn

(* Format is entered: lines 52-78 *)
Call(fm, e) ==
    /\ pc = "idle"
    /\ e.Buffer => Len(buf) <= MaxBufLen
    /\ f' = fm
    /\ entry' = e
    /\ data' = ReservedData(fm, e)
    /\ todo' = DOMAIN e.Data
    /\ emitted' = EmptyMap
    /\ before' = buf
    /\ pc' = "range"
    /\ UNCHANGED <<buf, ret>>

(* one iteration of `for k, v := range entry.Data` *)
RangeData ==
    /\ pc = "range"
    /\ todo # {}
    /\ \E k \in todo :
        /\ data' = InsertField(f, data, k, entry.Data[k])
        /\ emitted' = Put(emitted, k, FieldKey(data, k))
        /\ todo' = todo \ {k}
    /\ UNCHANGED <<f, entry, pc, buf, before, ret>>

(* the loop is over: lines 94-109 *)
Encode ==
    /\ pc = "range"
    /\ todo = {}
    /\ pc' = "done"
    /\ LET b == DestinationBuffer(entry, buf) IN
        IF Encodable(data)
        THEN /\ ret' = [bytes |-> b \o EncoderOutput(data, f.PrettyPrint),
                        err |-> NoError]
             /\ buf' = IF entry.Buffer THEN b \o EncoderOutput(data, f.PrettyPrint)
                       ELSE buf
        ELSE /\ ret' = [bytes |-> NoBytes, err |-> MarshalError]
             /\ buf' = buf
    /\ UNCHANGED <<f, entry, data, todo, emitted, before>>

(* the caller has taken the result; the entry and its document are dropped *)
Return ==
    /\ pc = "done"
    /\ pc' = "idle"
    /\ f' = Idle
    /\ entry' = Idle
    /\ data' = EmptyMap
    /\ emitted' = EmptyMap
    /\ before' = <<>>
    /\ ret' = NoReturn
    /\ UNCHANGED <<todo, buf>>

(* the owner of the buffer empties it between calls (bytes.Buffer.Reset) *)
Reset ==
    /\ pc = "idle"
    /\ buf # <<>>
    /\ buf' = <<>>
    /\ UNCHANGED <<f, entry, data, todo, emitted, pc, before, ret>>

(* Field maps, no caller-supplied buffer *)
FieldFormatters ==
    {FormatterOf(v, nt, "nil", "", FALSE) : v \in Variants, nt \in BOOLEAN}
FieldEntries ==
    {EntryOf(t, InfoLevel, "hello", c, d, FALSE) :
        t \in Times, c \in Callers, d \in FieldMaps}

FormatFields ==
    /\ pc = "idle"
    /\ \E fm \in FieldFormatters, e \in FieldEntries : Call(fm, e)

Next ==
    \/ FormatFields
    \/ RangeData
    \/ Encode
    \/ Return

Spec == Init /\ [][Next]_vars

----------------------------------------------------------------------------
(* Levels: every level value, with fields that clash with the level keys *)
LevelFormatters ==
    {FormatterOf(v, nt, "nil", "", FALSE) : v \in Variants, nt \in BOOLEAN}
LevelFieldMaps ==
    {EmptyMap} \cup {[k \in {n} |-> GoString("something")] : n \in {"level", "severity"}}
LevelEntries ==
    {EntryOf(0, l, "hello", c, d, FALSE) :
        l \in 0..MaxLevel, c \in Callers, d \in LevelFieldMaps}

FormatLevels ==
    /\ pc = "idle"
    /\ \E fm \in LevelFormatters, e \in LevelEntries : Call(fm, e)

NextLevel ==
    \/ FormatLevels
    \/ RangeData
    \/ Encode
    \/ Return

SpecLevel == Init /\ [][NextLevel]_vars

----------------------------------------------------------------------------
(* Callers: frames, prettyfiers and prefixes *)
Prefixes == {"", "/src/", "/src/app/main.go"}
CallerFormatters ==
    {FormatterOf(v, FALSE, p, x, FALSE) :
        v \in Variants, p \in Prettyfiers, x \in Prefixes}
Frames ==
    {Frame(fn, file, 42) :
        fn \in {"somefunc", ""}, file \in {"/src/app/main.go", "/lib/x.go", ""}}
CallerFieldMaps ==
    {EmptyMap} \cup
    {[k \in {n} |-> v] :
        n \in {SourceLocationKey, "func"},
        v \in {GoString("howdy pardner"), GoError("wild walrus"),
               GoMarshalerError("wild walrus")}}
CallerEntries ==
    {EntryOf(0, InfoLevel, "hello", c, d, FALSE) :
        c \in {NoCaller} \cup Frames, d \in CallerFieldMaps}

FormatCallers ==
    /\ pc = "idle"
    /\ \E fm \in CallerFormatters, e \in CallerEntries : Call(fm, e)

NextCaller ==
    \/ FormatCallers
    \/ RangeData
    \/ Encode
    \/ Return

SpecCaller == Init /\ [][NextCaller]_vars

----------------------------------------------------------------------------
(* Buffers: calls with and without the caller's buffer, which may already  *)
(* hold bytes and is reused from call to call                              *)
(* map-valued fields: a map in a map, and a map holding a channel *)
NestedMap == GoMap([m |-> GoMap([x |-> GoInt(1)])])
MapWithChan == GoMap([c |-> GoChan])
BufferFormatters ==
    {FormatterOf("trim", FALSE, "nil", "", pp) : pp \in BOOLEAN}
BufferFieldMaps ==
    {EmptyMap} \cup
    {[k \in {"level"} |-> v] :
        v \in {GoString("something"), GoChan, NestedMap, MapWithChan}}
BufferEntries ==
    {EntryOf(0, InfoLevel, "hello", NoCaller, d, b) :
        d \in BufferFieldMaps, b \in BOOLEAN}

InitBuffer ==
    /\ f = Idle
    /\ entry = Idle
    /\ data = EmptyMap
    /\ todo = {}
    /\ emitted = EmptyMap
    /\ pc = "idle"
    /\ buf \in {<<>>, <<Junk>>}
    /\ before = <<>>
    /\ ret = NoReturn

FormatBuffers ==
    /\ pc = "idle"
    /\ \E fm \in BufferFormatters, e \in BufferEntries : Call(fm, e)

NextBuffer ==
    \/ FormatBuffers
    \/ RangeData
    \/ Encode
    \/ Return
    \/ Reset

SpecBuffer == InitBuffer /\ [][NextBuffer]_vars

----------------------------------------------------------------------------
(* Helpers of the properties *)

InCall == pc \in {"range", "done"}
Succeeded == pc = "done" /\ ret.err = NoError
(* the JSON document of the line Format returned *)
Decoded == ret.bytes[Len(ret.bytes) - 1].doc
(* the field the last RangeData step visited, in an action formula *)
Visited == todo \ todo'

----------------------------------------------------------------------------
(* C1: for every level value the severity key holds the value of the fixed *)
(* table (Panic, Fatal: CRITICAL; Error: ERROR; Warning: WARNING; Info:    *)
(* INFO; Debug, Trace: DEBUG; anything else: DEFAULT), the level key holds *)
(* the level's name, and both reach the encoded line.                      *)
SeverityFollowsTable ==
    InCall =>
        LET l == entry.Level
            sev == data["severity"]
            name == data["level"]
        IN  /\ l \in {PanicLevel, FatalLevel} => sev = GoString("CRITICAL")
            /\ l = ErrorLevel => sev = GoString("ERROR")
            /\ l = WarnLevel => sev = GoString("WARNING")
            /\ l = InfoLevel => sev = GoString("INFO")
            /\ l \in {DebugLevel, TraceLevel} => sev = GoString("DEBUG")
            /\ l \notin PanicLevel..TraceLevel => sev = GoString("DEFAULT")
            /\ l = PanicLevel => name = GoString("panic")
            /\ l = FatalLevel => name = GoString("fatal")
            /\ l = ErrorLevel => name = GoString("error")
            /\ l = WarnLevel => name = GoString("warning")
            /\ l = InfoLevel => name = GoString("info")
            /\ l = DebugLevel => name = GoString("debug")
            /\ l = TraceLevel => name = GoString("trace")
            /\ l \notin PanicLevel..TraceLevel => name = GoString("unknown")
            /\ Succeeded =>
                /\ Decoded["severity"] = JSONString(sev.str)
                /\ Decoded["level"] = JSONString(name.str)

(* an unrecognized level was formatted, with a user field named severity *)
SeverityWitness ==
    /\ Succeeded
    /\ entry.Level > TraceLevel
    /\ "severity" \in DOMAIN entry.Data
    /\ Decoded["severity"] = JSONString("DEFAULT")
    /\ "fields.severity" \in DOMAIN Decoded

----------------------------------------------------------------------------
(* C3: whatever the field map, the document holds message, severity and    *)
(* level, timestamp unless DisableTimestamp, and the source location when  *)
(* the entry has a caller, each with the value the formatter assigned; no  *)
(* user field overwrites them.                                             *)
ReservedKeysKept ==
    InCall =>
        /\ {"message", "severity", "level"} \subseteq DOMAIN data
        /\ data["message"] = GoString(entry.Message)
        /\ data["severity"] = GoString("INFO")
        /\ data["level"] = GoString("info")
        /\ ~f.DisableTimestamp =>
            /\ "timestamp" \in DOMAIN data
            /\ data["timestamp"] =
                    GoMap([seconds |-> GoInt(entry.Time \div NanosPerSecond),
                           nanos |-> GoInt(entry.Time % NanosPerSecond)])
        /\ HasCaller(entry) =>
            /\ SourceLocationKey \in DOMAIN data
            /\ data[SourceLocationKey] =
                    (IF entry.Caller.File = ""
                     THEN GoMap([function |-> GoString(entry.Caller.Function)])
                     ELSE GoMap([function |-> GoString(entry.Caller.Function),
                                 file |-> GoString(entry.Caller.File),
                                 line |-> GoInt(entry.Caller.Line)]))
        /\ Succeeded =>
            /\ Decoded["message"] = JSONString(entry.Message)
            /\ Decoded["severity"] = JSONString("INFO")
            /\ Decoded["level"] = JSONString("info")
            /\ HasCaller(entry) =>
                    Decoded[SourceLocationKey].obj["function"]
                        = JSONString(entry.Caller.Function)

(* a map with a reserved name and its prefixed form went through, with a   *)
(* caller and a timestamp                                                  *)
ReservedKeysWitness ==
    /\ Succeeded
    /\ {"message", "fields.message"} \subseteq DOMAIN entry.Data
    /\ HasCaller(entry)
    /\ ~f.DisableTimestamp

----------------------------------------------------------------------------
(* C2, as amended: when the loop visits a user field, it stores it under   *)
(* fields.<name> exactly when the name is a key of the document at that    *)
(* moment, and under its own name otherwise; no other key changes; the     *)
(* value stored is the field's value, except that an error value is        *)
(* replaced by its message (or, in the variant of part_000, kept when it   *)
(* is a json.Marshaler).  Without a caller, func and the source-location   *)
(* name are stored under their own names.                                  *)
ExpectedStored(v) ==
    CASE v.kind = "error" -> GoString(v.msg)
      [] v.kind = "marshalerError" ->
            IF f.variant = "trim" THEN v ELSE GoString(v.msg)
      [] OTHER -> v

StoredUnder(k, key, v) ==
    /\ key = (IF k \in DOMAIN data THEN "fields." \o k ELSE k)
    /\ DOMAIN data' = DOMAIN data \cup {key}
    /\ data'[key] = v
    /\ \A x \in DOMAIN data \ {key} : data'[x] = data[x]
    /\ (~HasCaller(entry) /\ k \in {"func", SourceLocationKey}) => key = k

RenamedExactlyOnClash ==
    [][\A k \in Visited :
        StoredUnder(k, emitted'[k], ExpectedStored(entry.Data[k]))]_vars

(* C2 as stated: the value stored is always the field's own value *)
RenamedAndUnmodified ==
    [][\A k \in Visited : StoredUnder(k, emitted'[k], entry.Data[k])]_vars

(* one field was renamed because of a clash, and an error-valued field     *)
(* went in under its own name                                              *)
RenamedWitness ==
    /\ pc = "done"
    /\ \E k \in DOMAIN emitted : emitted[k] = "fields." \o k
    /\ \E k \in DOMAIN emitted : emitted[k] = k /\ IsError(entry.Data[k])

----------------------------------------------------------------------------
(* C4: an error value that is also a json.Marshaler is stored as it is,    *)
(* any other error value is stored as its message string.                  *)
ErrorValueRule ==
    [][\A k \in Visited :
        LET v == entry.Data[k] IN
            /\ v.kind = "marshalerError" => data'[emitted'[k]] = v
            /\ v.kind = "error" => data'[emitted'[k]] = GoString(v.msg)]_vars

----------------------------------------------------------------------------
(* C5: with DisableTimestamp the line has no timestamp key, whatever the   *)
(* field map; without it the key is there and holds seconds and nanos of   *)
(* the entry's time.                                                       *)
TimestampOnlyWhenEnabled ==
    Succeeded =>
        IF f.DisableTimestamp
        THEN "timestamp" \notin DOMAIN Decoded
        ELSE /\ "timestamp" \in DOMAIN Decoded
             /\ Decoded["timestamp"] =
                    JSONObject([seconds |-> JSONNumber(entry.Time \div NanosPerSecond),
                                nanos |-> JSONNumber(entry.Time % NanosPerSecond)])

----------------------------------------------------------------------------
(* C7: every entry of the field map is in the document under a key of its  *)
(* own: no two fields share a key, and none sits on a reserved key.        *)
CollisionsLossless ==
    Succeeded =>
        /\ \A k \in DOMAIN entry.Data :
                /\ emitted[k] \in DOMAIN data \ ReservedKeys(f, entry)
                /\ data[emitted[k]] = FieldValue(f, entry.Data[k])
        /\ Cardinality(DOMAIN data) =
                Cardinality(ReservedKeys(f, entry)) + Cardinality(DOMAIN entry.Data)

----------------------------------------------------------------------------
(* C8: the document depends on the entry and the configuration only: every *)
(* order of visiting the field map gives the document this call built.     *)
OrderIndependent ==
    Succeeded =>
        \A o \in RangeOrders(DOMAIN entry.Data) :
            RangeInOrder(f, entry, ReservedData(f, entry), o) = data

----------------------------------------------------------------------------
(* C9: the shape of the source-location object.  With a caller, the key is *)
(* in the document and holds an object in which function is present        *)
(* exactly when the resulting function string is not empty, file exactly   *)
(* when the resulting file string is not empty, and line exactly when file *)
(* is, with the caller's line.                                             *)
SourceLocationShape ==
    HasCaller(entry) =>
        /\ SourceLocationKey \in DOMAIN data
        /\ data[SourceLocationKey].kind = "map"
        /\ LET l == data[SourceLocationKey].map
               funcVal == CallerVals(f, entry)[1]
               fileVal == CallerVals(f, entry)[2]
           IN  /\ DOMAIN l \subseteq {"function", "file", "line"}
               /\ "function" \in DOMAIN l <=> funcVal # ""
               /\ "function" \in DOMAIN l => l["function"] = GoString(funcVal)
               /\ "file" \in DOMAIN l <=> fileVal # ""
               /\ "file" \in DOMAIN l => l["file"] = GoString(fileVal)
               /\ "line" \in DOMAIN l <=> "file" \in DOMAIN l
               /\ "line" \in DOMAIN l => l["line"] = GoInt(entry.Caller.Line)

(* C9 as stated: and without a caller the key is not in the document       *)
SourceLocationOnlyWithCaller ==
    InCall =>
        /\ SourceLocationShape
        /\ ~HasCaller(entry) => SourceLocationKey \notin DOMAIN data

(* C9, as amended: without a caller the key is absent unless the field map *)
(* has a user field of that name: the formatter does not set it, and it is *)
(* in the document exactly when such a field has been stored.              *)
SourceLocationUnlessUserField ==
    InCall =>
        /\ SourceLocationShape
        /\ ~HasCaller(entry) =>
            (SourceLocationKey \in DOMAIN data
                <=> SourceLocationKey \in DOMAIN entry.Data \ todo)

(* a caller whose function and file were both suppressed: the object is    *)
(* stored empty                                                            *)
SourceLocationWitness ==
    /\ Succeeded
    /\ HasCaller(entry)
    /\ entry.Caller.File # ""
    /\ Decoded[SourceLocationKey] = JSONObject(EmptyMap)

----------------------------------------------------------------------------
(* C10: in the variant with TrimFilenamePrefix the prefix is removed       *)
(* before the prettyfier runs: the file the prettyfier works on, and so    *)
(* the file that is emitted, is the caller's file without the prefix.      *)
TrimmedFrame ==
    [entry.Caller EXCEPT !.File = TrimPrefix(entry.Caller.File, f.TrimFilenamePrefix)]

TrimThenPrettify ==
    (InCall /\ f.variant = "trim" /\ HasCaller(entry)) =>
        LET fileVal == IF f.CallerPrettyfier = "nil"
                       THEN TrimmedFrame.File
                       ELSE CallerPrettyfier(f.CallerPrettyfier, TrimmedFrame)[2]
            l == data[SourceLocationKey].map
        IN  IF fileVal = ""
            THEN "file" \notin DOMAIN l
            ELSE "file" \in DOMAIN l /\ l["file"] = GoString(fileVal)

----------------------------------------------------------------------------
(* C6, as amended: a successful call returns the bytes its buffer held     *)
(* when the call began (none without a buffer), followed by one JSON       *)
(* object for this call's document and one newline; a supplied buffer then *)
(* holds the same bytes, so what it held before is untouched; a buffer     *)
(* that was not supplied is untouched.                                     *)
AppendsOneLine ==
    Succeeded =>
        LET prior == IF entry.Buffer THEN before ELSE <<>>
            n == Len(ret.bytes)
        IN  /\ n = Len(prior) + 2
            /\ SubSeq(ret.bytes, 1, Len(prior)) = prior
            /\ ret.bytes[n - 1].tok = "object"
            /\ ret.bytes[n - 1].doc = EncodeDocument(data)
            /\ ret.bytes[n - 1].indent = (IF f.PrettyPrint THEN "  " ELSE "")
            /\ ret.bytes[n] = Newline
            /\ buf = (IF entry.Buffer THEN ret.bytes ELSE before)

(* C6 as stated: what a successful call returns is one object and one      *)
(* newline, nothing else                                                   *)
ReturnsExactlyOneLine ==
    Succeeded =>
        /\ Len(ret.bytes) = Len(EncoderOutput(data, f.PrettyPrint))
        /\ ret.bytes[1].tok = "object"
        /\ ret.bytes[Len(ret.bytes)] = Newline

(* a buffer that began with other bytes and was already used by an earlier *)
(* call is used again                                                      *)
AppendsWitness ==
    /\ Succeeded
    /\ entry.Buffer
    /\ Len(before) > Len(<<Junk>>) + 1
    /\ before[1] = Junk
    /\ before[Len(before)] = Newline

====
